---------------------------- MODULE Spec2Model ----------------------------
(***************************************************************************)
(* Model of ch07/07_dqn_categorical.py: the categorical DQN training       *)
(* script.                                                                 *)
(*                                                                         *)
(*   Spec      the training loop of __main__ (lines 158-199)               *)
(*   SpecLoss  calc_loss and unpack_batch applied to bounded inputs        *)
(*   SpecNet   construction and forward passes of CategoricalDQN and       *)
(*             CategoricalQValues on bounded inputs                        *)
(*                                                                         *)
(* Numbers that are floats in the script are kept exact: a value is an     *)
(* integer count of a stated unit (1/100 for TD targets, 1/(N_ATOMS-1)     *)
(* for the support, 1/100000 for epsilon, halves for the reward bound).    *)
(***************************************************************************)
EXTENDS Integers, Sequences, FiniteSets, TLC

VARIABLES
    \* ---- training loop (__main__) ----
    pc,             \* position of the driver in the loop
    frame_idx,      \* line 158
    buffer_len,     \* len(buffer)
    batch_len,      \* len(batch) of the last buffer.sample(BATCH_SIZE)
    epsilon,        \* epsilon_greedy_selector.epsilon, in units of 1/EPSILON_DECAY_LAST_FRAME
    new_rewards,    \* line 168
    total_rewards,  \* line 162
    store,          \* parameter storage of the modules: object name -> parameters
    loss_call,      \* the arguments of the last calc_loss call of the driver
    ops,            \* the calls made so far in the current iteration, in order
    synced,         \* the online parameters as they were when the target was last written
    \* ---- calc_loss / unpack_batch ----
    lpc,            \* position inside calc_loss
    args,           \* [batch, net, tgt_net] handed to calc_loss
    unpacked,       \* result of unpack_batch (line 112)
    state_action_values,            \* line 126
    next_state_values,              \* lines 127-128
    expected_state_action_values,   \* line 131
    loss_v,                         \* line 132
    \* ---- network modules ----
    npc,            \* position inside the module calls
    n_actions,      \* env.action_space.n given to CategoricalDQN
    x,              \* the batch of observations given to forward
    theta,          \* the parameters of the network under forward
    supports,       \* CategoricalQValues.supports (line 84)
    cat_out,        \* line 88
    probs,          \* line 89
    res             \* line 92

loopVars == <<pc, frame_idx, buffer_len, batch_len, epsilon, new_rewards,
              total_rewards, store, loss_call, ops, synced>>
lossVars == <<lpc, args, unpacked, state_action_values, next_state_values,
              expected_state_action_values, loss_v>>
netVars == <<npc, n_actions, x, theta, supports, cat_out, probs, res>>
vars == <<loopVars, lossVars, netVars>>

\* Python's None where an observation is expected (observations are >= 0)
None == -1
\* the value of an expression whose evaluation raises
Error == [shape |-> <<-1>>, data |-> <<>>]
\* a tensor variable not assigned yet
Unset == [shape |-> <<0>>, data |-> <<>>]

(***************************************************************************)
(* Program constants                                                       *)
(***************************************************************************)
\* MEAN_REWARD_BOUND = 19.5 (PONG_MODE), in halves
MEAN_REWARD_BOUND_HALVES == 39
\* GAMMA = 0.99 as num/den
GAMMA == [num |-> 99, den |-> 100]
BATCH_SIZE == 32
REPLAY_SIZE == 10000
SYNC_TARGET_FRAMES == 1000
REPLAY_START_SIZE == 10000
EPSILON_DECAY_LAST_FRAME == 100000
\* EPSILON_START = 1.0 and EPSILON_FINAL = 0.02, in units of 1/EPSILON_DECAY_LAST_FRAME
EPSILON_START == 100000
EPSILON_FINAL == 2000
Vmax == 10
Vmin == -10
N_ATOMS == 51
\* total_rewards[-100:]
REWARD_WINDOW == 100

(***************************************************************************)
(* Bounds of the model                                                     *)
(***************************************************************************)
MaxFrames == 11001
MaxEpisodes == 2
MaxBatch == 2
MaxActions == 3
\* total rewards an episode can end with
EpisodeRewards == {19, 20, 21}
\* observations, abstracted to one number each
Observations == {0, 1}
\* the actions of the environment calc_loss is applied to
ActionSet == {0, 1}
\* rewards of a transition
RewardSet == {-1, 0, 1}
\* the parameter sets the modules are run with
ParamChoices == {[conv |-> 0, fc |-> 0], [conv |-> 1, fc |-> 1]}
\* stand-in value networks: callables returning one scalar per (row, action)
TableIds == {0, 1, 2}

Min(a, b) == IF a < b THEN a ELSE b
Max(a, b) == IF a > b THEN a ELSE b

RECURSIVE SumSeq(_)
SumSeq(s) == IF s = <<>> THEN 0 ELSE Head(s) + SumSeq(Tail(s))

\* s[-n:]
LastN(s, n) == IF Len(s) <= n THEN s ELSE SubSeq(s, Len(s) - n + 1, Len(s))

Did(op) == \E i \in DOMAIN ops : ops[i] = op


(***************************************************************************)
(* Parameters of the modules.  A parameter set is identified by how many   *)
(* optimizer steps produced it, separately for the two sub-modules         *)
(* (self.conv, self.fc) of CategoricalDQN.                                 *)
(***************************************************************************)
InitialParams == [conv |-> 0, fc |-> 0]

\* optimizer.step() of Adam over net.parameters(): every parameter changes
Stepped(p) == [conv |-> p.conv + 1, fc |-> p.fc + 1]

\* ptan.agent.TargetNet(net): target_model is a deep copy with storage of its own
TargetModelRef == "target_model"

OnlineParams == store["net"]
TargetParams == store[TargetModelRef]

\* tgt_net.sync(): target_model.load_state_dict(model.state_dict())
SyncKeepsConv(online, target) == [target EXCEPT !.fc = online.fc]
LoadStateDict(online, target) == online

\* the modules of __main__: net (line 144), qvals_net (line 145) and
\* tgt_net.target_model (line 150, a copy of net and so of its class)
NetModule == [cls |-> "CategoricalDQN", obj |-> "net", q |-> 0]
QValsNetModule == [cls |-> "CategoricalQValues", obj |-> "net", q |-> 0]
TargetModel == [cls |-> "CategoricalDQN", obj |-> TargetModelRef, q |-> 0]

\* the arguments of calc_loss at line 193
DriverCall == [net |-> NetModule, tgt_net |-> TargetModel]

\* line 166, in units of 1/EPSILON_DECAY_LAST_FRAME
EpsilonAt(f) == Max(EPSILON_FINAL, EPSILON_START - f)

\* line 174 and line 184: np.mean(total_rewards[-100:]) > MEAN_REWARD_BOUND
MeanAtLeastBound(rewards) ==
    LET w == LastN(rewards, REWARD_WINDOW)
    IN  2 * SumSeq(w) >= MEAN_REWARD_BOUND_HALVES * Len(w)
MeanAboveBound(rewards) ==
    LET w == LastN(rewards, REWARD_WINDOW)
    IN  2 * SumSeq(w) > MEAN_REWARD_BOUND_HALVES * Len(w)

\* line 188
GateOnBatchSize(n) == n < BATCH_SIZE
BufferTooSmall(n) == n < REPLAY_START_SIZE

\* line 197
SyncEveryOtherPeriod(f) == f % (2 * SYNC_TARGET_FRAMES) = 0
SyncDue(f) == f % SYNC_TARGET_FRAMES = 0

InitLoop ==
    /\ pc = "loop"
    /\ frame_idx = 0
    /\ buffer_len = 0
    /\ batch_len = 0
    /\ epsilon = EPSILON_START
    /\ new_rewards = <<>>
    /\ total_rewards = <<>>
    /\ store = [o \in {"net", "target_model"} |-> InitialParams]
    /\ loss_call = <<>>
    /\ ops = <<>>
    /\ synced = InitialParams

\* line 163-164
IncFrame ==
    /\ pc = "loop"
    /\ frame_idx < MaxFrames
    /\ frame_idx' = frame_idx + 1
    /\ ops' = <<>>
    /\ pc' = "populate"
    /\ UNCHANGED <<buffer_len, batch_len, epsilon, new_rewards, total_rewards,
                   store, loss_call, synced, lossVars, netVars>>

\* line 165-166: one experience enters the bounded FIFO buffer
Populate ==
    /\ pc = "populate"
    /\ buffer_len' = Min(buffer_len + 1, REPLAY_SIZE)
    /\ epsilon' = EpsilonAt(frame_idx)
    /\ ops' = Append(ops, "populate")
    /\ pc' = "rewards"
    /\ UNCHANGED <<frame_idx, batch_len, new_rewards, total_rewards, store,
                   loss_call, synced, lossVars, netVars>>

\* line 168-186: the episodes that ended in this step, and the break
PopRewards ==
    /\ pc = "rewards"
    /\ \E nr \in {<<>>} \cup {<<r>> : r \in EpisodeRewards} :
          /\ nr # <<>> => Len(total_rewards) < MaxEpisodes
          /\ new_rewards' = nr
          /\ total_rewards' = total_rewards \o nr
          /\ IF nr # <<>> /\ MeanAboveBound(total_rewards \o nr)
             THEN pc' = "done"
             ELSE pc' = "gate"
    /\ ops' = Append(ops, "pop_total_rewards")
    /\ UNCHANGED <<frame_idx, buffer_len, batch_len, epsilon, store, loss_call,
                   synced, lossVars, netVars>>

\* line 188-189
Gate ==
    /\ pc = "gate"
    /\ IF BufferTooSmall(buffer_len)
       THEN pc' = "loop"
       ELSE pc' = "sample"
    /\ UNCHANGED <<frame_idx, buffer_len, batch_len, epsilon, new_rewards,
                   total_rewards, store, loss_call, ops, synced, lossVars, netVars>>

\* line 191-192: buffer.sample returns BATCH_SIZE records, or the whole buffer
\* when it holds no more than that
Sample ==
    /\ pc = "sample"
    /\ batch_len' = Min(buffer_len, BATCH_SIZE)
    /\ ops' = Append(ops, "sample")
    /\ pc' = "calc_loss"
    /\ UNCHANGED <<frame_idx, buffer_len, epsilon, new_rewards, total_rewards,
                   store, loss_call, synced, lossVars, netVars>>

\* line 193, the call returning a loss.  What calc_loss does with the
\* arguments of this call is followed line by line under SpecLoss; the loop
\* keeps both outcomes of the call (see Raise), so that the steps after it
\* are covered as well.
CalcLossReturns ==
    /\ pc = "calc_loss"
    /\ loss_call' = <<DriverCall>>
    /\ ops' = Append(ops, "calc_loss")
    /\ pc' = "backward"
    /\ UNCHANGED <<frame_idx, buffer_len, batch_len, epsilon, new_rewards,
                   total_rewards, store, synced, lossVars, netVars>>

\* line 165, line 193: an error of the numeric layer is not caught anywhere;
\* it leaves the loop and the script without reaching line 199
Raise ==
    /\ pc \in {"populate", "calc_loss"}
    /\ pc' = "raised"
    /\ loss_call' = IF pc = "calc_loss" THEN <<DriverCall>> ELSE loss_call
    /\ UNCHANGED <<frame_idx, buffer_len, batch_len, epsilon, new_rewards,
                   total_rewards, store, ops, synced, lossVars, netVars>>

\* line 194-195
OptimizerStep ==
    /\ pc = "backward"
    /\ store' = [store EXCEPT !["net"] = Stepped(@)]
    /\ ops' = Append(ops, "step")
    /\ pc' = "sync"
    /\ UNCHANGED <<frame_idx, buffer_len, batch_len, epsilon, new_rewards,
                   total_rewards, loss_call, synced, lossVars, netVars>>

\* line 197-198
Sync ==
    /\ pc = "sync"
    /\ IF SyncDue(frame_idx)
       THEN /\ store' = [store EXCEPT
                           ![TargetModelRef] = LoadStateDict(store["net"], @)]
            /\ synced' = store["net"]
            /\ ops' = Append(ops, "sync")
       ELSE UNCHANGED <<store, synced, ops>>
    /\ pc' = "loop"
    /\ UNCHANGED <<frame_idx, buffer_len, batch_len, epsilon, new_rewards,
                   total_rewards, loss_call, lossVars, netVars>>

Next ==
    \/ IncFrame
    \/ Populate
    \/ PopRewards
    \/ Gate
    \/ Sample
    \/ CalcLossReturns
    \/ Raise
    \/ OptimizerStep
    \/ Sync


(***************************************************************************)
(* Tensors: a shape and the elements in row-major order.                   *)
(***************************************************************************)
RECURSIVE Numel(_)
Numel(shape) == IF shape = <<>> THEN 1 ELSE Head(shape) * Numel(Tail(shape))

Tensor(shape, data) == [shape |-> shape, data |-> data]

\* t.view(*shape), where one entry of shape may be -1
View(t, shape) ==
    LET known == [i \in DOMAIN shape |-> IF shape[i] = -1 THEN 1 ELSE shape[i]]
        n == Len(t.data)
        k == Numel(known)
        full == [i \in DOMAIN shape |-> IF shape[i] = -1 THEN n \div k ELSE shape[i]]
    IN  IF k = 0 \/ n % k # 0 \/ Numel(full) # n
        THEN Error
        ELSE Tensor(full, t.data)

\* a * b with broadcasting of a 1-d tensor b over the last dimension of a
MulLast(a, b) ==
    LET last == a.shape[Len(a.shape)]
        n == b.shape[1]
    IN  IF n # last /\ n # 1
        THEN Error
        ELSE Tensor(a.shape,
                    [i \in DOMAIN a.data |->
                        a.data[i] * b.data[IF n = 1 THEN 1 ELSE ((i - 1) % n) + 1]])

\* t.sum(dim=2) of a 3-d tensor
SumDim2(t) ==
    LET n == t.shape[3]
        rows == t.shape[1] * t.shape[2]
    IN  Tensor(<<t.shape[1], t.shape[2]>>,
               [r \in 1..rows |-> SumSeq(SubSeq(t.data, (r - 1) * n + 1, r * n))])

\* e^s for the scores the layers produce, in units of 1/1000
Exp(s) == CASE s = -1 -> 368 [] s = 0 -> 1000 [] s = 1 -> 2718

\* nn.Softmax() of a 2-d tensor: along dimension 1; probabilities in units
\* of 1/100000, rounded down
Softmax(t) ==
    LET n == t.shape[2]
        row(i) == (i - 1) \div n
        e == [i \in DOMAIN t.data |-> Exp(t.data[i])]
        z(r) == SumSeq(SubSeq(e, r * n + 1, (r + 1) * n))
    IN  Tensor(t.shape, [i \in DOMAIN t.data |-> (e[i] * 100000) \div z(row(i))])

\* ceil(a / b) for b > 0
CeilDiv(a, b) == IF a % b = 0 THEN a \div b ELSE (a \div b) + 1

\* torch.arange(start, end, num/den): ceil((end - start) / step) elements
\* start, start + step, ..., each in units of 1/den
Arange(start, end, num, den) ==
    LET size == CeilDiv((end - start) * den, num)
    IN  Tensor(<<size>>, [i \in 1..size |-> start * den + (i - 1) * num])

(***************************************************************************)
(* CategoricalDQN                                                          *)
(***************************************************************************)
\* what the convolution stack and the two linear layers compute for one
\* observation: the score of output unit j.  The arithmetic of the layers is
\* abstracted to a fixed function of the parameters, the observation and j.
LinearOut(p, obs, j) == ((p.fc + (p.conv + 1) * obs + j) % 3) - 1

\* line 62: the width of the last linear layer
FcWidth(nA) == nA * N_ATOMS

\* CategoricalDQN.forward
DQNForward(p, nA, xs) ==
    LET batch_size == Len(xs)
        w == FcWidth(nA)
        fc_out == Tensor(<<batch_size, w>>,
                         [i \in 1..(batch_size * w) |->
                            LinearOut(p, xs[((i - 1) \div w) + 1], (i - 1) % w)])
    IN  View(fc_out, <<batch_size, -1, N_ATOMS>>)

(***************************************************************************)
(* CategoricalQValues                                                      *)
(***************************************************************************)
\* line 84
Supports == Arange(Vmin, Vmax, Vmax - Vmin, N_ATOMS - 1)

\* line 89
QValuesProbs(c) ==
    LET flat == View(c, <<-1, N_ATOMS>>)
    IN  IF flat = Error THEN Error ELSE View(Softmax(flat), c.shape)

\* line 90-92
QValuesReduce(pr, sup) ==
    LET weights == MulLast(pr, sup)
    IN  IF weights = Error THEN Error ELSE SumDim2(weights)

\* CategoricalQValues.forward
QValuesForward(p, nA, xs, sup) ==
    LET c == DQNForward(p, nA, xs)
        pr == IF c = Error THEN Error ELSE QValuesProbs(c)
    IN  IF pr = Error THEN Error ELSE QValuesReduce(pr, sup)


(***************************************************************************)
(* SpecNet: the modules constructed and run on bounded inputs              *)
(***************************************************************************)
ObsBatches == UNION {[1..n -> Observations] : n \in 1..MaxBatch}

NetIdle ==
    /\ npc = "idle"
    /\ n_actions = Cardinality(ActionSet)
    /\ x = <<>>
    /\ theta = InitialParams
    /\ supports = Unset
    /\ cat_out = Unset
    /\ probs = Unset
    /\ res = Unset

InitNet ==
    /\ npc = "new"
    /\ n_actions \in 1..MaxActions
    /\ x \in ObsBatches
    /\ theta \in ParamChoices
    /\ supports = Unset
    /\ cat_out = Unset
    /\ probs = Unset
    /\ res = Unset

\* CategoricalQValues.__init__ (line 81-85)
Construct ==
    /\ npc = "new"
    /\ supports' = Supports
    /\ npc' = "built"
    /\ UNCHANGED <<n_actions, x, theta, cat_out, probs, res, loopVars, lossVars>>

\* line 88: cat_out = self.cat_net(x), CategoricalDQN.forward
ForwardCatNet ==
    /\ npc = "built"
    /\ cat_out' = DQNForward(theta, n_actions, x)
    /\ npc' = IF cat_out' = Error THEN "raised" ELSE "cat_out"
    /\ UNCHANGED <<n_actions, x, theta, supports, probs, res, loopVars, lossVars>>

\* line 89
ForwardSoftmax ==
    /\ npc = "cat_out"
    /\ probs' = QValuesProbs(cat_out)
    /\ npc' = IF probs' = Error THEN "raised" ELSE "probs"
    /\ UNCHANGED <<n_actions, x, theta, supports, cat_out, res, loopVars, lossVars>>

\* line 90-92
ForwardReduce ==
    /\ npc = "probs"
    /\ res' = QValuesReduce(probs, supports)
    /\ npc' = IF res' = Error THEN "raised" ELSE "returned"
    /\ UNCHANGED <<n_actions, x, theta, supports, cat_out, probs, loopVars, lossVars>>

NextNet ==
    \/ Construct
    \/ ForwardCatNet
    \/ ForwardSoftmax
    \/ ForwardReduce

(***************************************************************************)
(* unpack_batch                                                            *)
(***************************************************************************)
\* line 102
DoneFlag(exp) == IF exp.last_state = None THEN 1 ELSE 0

\* line 103-106
PlaceholderNone(exp) == exp.last_state
LastStateEntry(exp) == IF exp.last_state = None THEN exp.state ELSE exp.last_state

EmptyArrays == [states |-> <<>>, actions |-> <<>>, rewards |-> <<>>,
                dones |-> <<>>, last_states |-> <<>>]

\* line 97-106, the loop over the batch
RECURSIVE UnpackLoop(_, _)
UnpackLoop(rest, acc) ==
    IF rest = <<>>
    THEN acc
    ELSE LET exp == Head(rest)
         IN  UnpackLoop(Tail(rest),
                        [states |-> Append(acc.states, exp.state),
                         actions |-> Append(acc.actions, exp.action),
                         rewards |-> Append(acc.rewards, exp.reward),
                         dones |-> Append(acc.dones, DoneFlag(exp)),
                         last_states |-> Append(acc.last_states, LastStateEntry(exp))])

unpack_batch(batch) == UnpackLoop(batch, EmptyArrays)

(***************************************************************************)
(* calc_loss                                                               *)
(***************************************************************************)
\* a stand-in value network: one scalar per (observation, action)
QTable(k, obs, a) == ((k + 2 * obs + 3 * a) % 5) - 2
TableNet(k) == [cls |-> "Table", obj |-> "", q |-> k]

\* net(xs) for the callables handed to calc_loss
Forward(net, xs) ==
    CASE net.cls = "CategoricalDQN" -> DQNForward(store[net.obj], n_actions, xs)
      [] net.cls = "CategoricalQValues" ->
            QValuesForward(store[net.obj], n_actions, xs, Supports)
      [] net.cls = "Table" ->
            Tensor(<<Len(xs), n_actions>>,
                   [i \in 1..(Len(xs) * n_actions) |->
                      QTable(net.q, xs[((i - 1) \div n_actions) + 1],
                             (i - 1) % n_actions)])

\* t.gather(1, index) for index of shape [B, 1], then squeeze(-1); gather
\* wants index and t of the same number of dimensions
Gather1(t, index) ==
    IF Len(t.shape) # Len(index.shape)
    THEN Error
    ELSE Tensor(<<index.shape[1]>>,
                [b \in 1..index.shape[1] |->
                    t.data[(b - 1) * t.shape[2] + index.data[b] + 1]])

\* t.max(1)[0] of a 2-d or 3-d tensor
MaxOver(S) == CHOOSE m \in S : \A v \in S : m >= v
Max1(t) ==
    LET inner == IF Len(t.shape) = 3 THEN t.shape[3] ELSE 1
        n == t.shape[2]
        shape == IF Len(t.shape) = 3 THEN <<t.shape[1], inner>> ELSE <<t.shape[1]>>
    IN  Tensor(shape,
               [i \in 1..(t.shape[1] * inner) |->
                  LET b == (i - 1) \div inner
                      k == (i - 1) % inner
                  IN  MaxOver({t.data[b * n * inner + a * inner + k + 1] :
                                  a \in 0..(n - 1)})])

\* t[mask] = 0.0 for a 1-d tensor and a byte mask of its length
KeepMasked(t, mask) == t
MaskedZero(t, mask) ==
    CASE Len(t.shape) = 1 /\ Len(mask) = t.shape[1] ->
            Tensor(t.shape, [i \in DOMAIN t.data |->
                                IF mask[i] = 1 THEN 0 ELSE t.data[i]])

\* line 131: next_state_values * GAMMA + rewards_v, in units of 1/GAMMA.den
UndiscountedTarget(nsv, rewards) ==
    Tensor(nsv.shape, [i \in DOMAIN nsv.data |->
                          nsv.data[i] * GAMMA.den + rewards[i] * GAMMA.den])
TdTarget(nsv, rewards) ==
    Tensor(nsv.shape, [i \in DOMAIN nsv.data |->
                          nsv.data[i] * GAMMA.num + rewards[i] * GAMMA.den])

\* line 132: nn.MSELoss(), as num/den
MSELoss(sav, esav) ==
    [num |-> SumSeq([i \in DOMAIN sav.data |->
                        (sav.data[i] * GAMMA.den - esav.data[i])
                        * (sav.data[i] * GAMMA.den - esav.data[i])]),
     den |-> Len(sav.data) * GAMMA.den * GAMMA.den]

Records == [state : Observations, action : ActionSet, reward : RewardSet,
            last_state : Observations \cup {None}]
Batches == UNION {[1..n -> Records] : n \in 1..MaxBatch}

\* the calls of calc_loss examined: the driver's (line 193), the one with the
\* Expectation Reducer on both sides, and stand-in value networks
ModuleCalls == {DriverCall, [net |-> QValsNetModule, tgt_net |-> QValsNetModule]}
TableCalls == {[net |-> TableNet(k),
                tgt_net |-> TableNet((k + 1) % Cardinality(TableIds))] :
                  k \in TableIds}

\* batches of one record repeated
UniformBatches == {[i \in 1..n |-> r] : n \in 1..MaxBatch, r \in Records}

NoArgs == [batch |-> <<>>, net |-> NetModule, tgt_net |-> NetModule]
NoLoss == [num |-> 0, den |-> 1]

LossIdle ==
    /\ lpc = "idle"
    /\ args = NoArgs
    /\ unpacked = EmptyArrays
    /\ state_action_values = Unset
    /\ next_state_values = Unset
    /\ expected_state_action_values = Unset
    /\ loss_v = NoLoss

InitLoss ==
    /\ lpc = "called"
    /\ \/ \E b \in Batches, c \in TableCalls :
             args = [batch |-> b, net |-> c.net, tgt_net |-> c.tgt_net]
       \/ \E b \in UniformBatches, c \in ModuleCalls :
             args = [batch |-> b, net |-> c.net, tgt_net |-> c.tgt_net]
    /\ unpacked = EmptyArrays
    /\ state_action_values = Unset
    /\ next_state_values = Unset
    /\ expected_state_action_values = Unset
    /\ loss_v = NoLoss

\* line 112 (and 114-118: the arrays become tensors, element for element)
Unpack ==
    /\ lpc = "called"
    /\ unpacked' = unpack_batch(args.batch)
    /\ lpc' = "unpacked"
    /\ UNCHANGED <<args, state_action_values, next_state_values,
                   expected_state_action_values, loss_v, loopVars, netVars>>

\* line 126
Predict ==
    /\ lpc = "unpacked"
    /\ LET out == Forward(args.net, unpacked.states)
           index == Tensor(<<Len(unpacked.actions), 1>>, unpacked.actions)
       IN  state_action_values' = IF out = Error THEN Error ELSE Gather1(out, index)
    /\ lpc' = IF state_action_values' = Error THEN "raised" ELSE "predicted"
    /\ UNCHANGED <<args, unpacked, next_state_values,
                   expected_state_action_values, loss_v, loopVars, netVars>>

\* line 127
NextValues ==
    /\ lpc = "predicted"
    /\ LET out == Forward(args.tgt_net, unpacked.last_states)
       IN  next_state_values' = IF out = Error THEN Error ELSE Max1(out)
    /\ lpc' = IF next_state_values' = Error THEN "raised" ELSE "next_values"
    /\ UNCHANGED <<args, unpacked, state_action_values,
                   expected_state_action_values, loss_v, loopVars, netVars>>

\* line 128
MaskDone ==
    /\ lpc = "next_values"
    /\ next_state_values' = MaskedZero(next_state_values, unpacked.dones)
    /\ lpc' = "masked"
    /\ UNCHANGED <<args, unpacked, state_action_values,
                   expected_state_action_values, loss_v, loopVars, netVars>>

\* line 131
Target ==
    /\ lpc = "masked"
    /\ expected_state_action_values' = TdTarget(next_state_values, unpacked.rewards)
    /\ lpc' = "target"
    /\ UNCHANGED <<args, unpacked, state_action_values, next_state_values,
                   loss_v, loopVars, netVars>>

\* line 132
Loss ==
    /\ lpc = "target"
    /\ loss_v' = MSELoss(state_action_values, expected_state_action_values)
    /\ lpc' = "returned"
    /\ UNCHANGED <<args, unpacked, state_action_values, next_state_values,
                   expected_state_action_values, loopVars, netVars>>

NextLoss ==
    \/ Unpack
    \/ Predict
    \/ NextValues
    \/ MaskDone
    \/ Target
    \/ Loss

(***************************************************************************)
(* Specifications                                                          *)
(***************************************************************************)
Init == InitLoop /\ LossIdle /\ NetIdle
Spec == Init /\ [][Next]_vars

InitCalcLoss == InitLoop /\ InitLoss /\ NetIdle
SpecLoss == InitCalcLoss /\ [][NextLoss]_vars

InitModules == InitLoop /\ LossIdle /\ InitNet
SpecNet == InitModules /\ [][NextNet]_vars


(***************************************************************************)
(* Properties                                                              *)
(***************************************************************************)
IsDone(i) == args.batch[i].last_state = None
Targeted == lpc \in {"target", "returned"}

\* the target network's values for one observation, one per action
TargetRow(obs) == Forward(args.tgt_net, <<obs>>).data

\* C1: for every transition of the batch whose next state is None the next
\* value is forced to 0 and the target equals the reward, whatever the target
\* network gives for the placeholder observation of that row.
C1_DoneTargetIsReward ==
    /\ lpc \in {"masked", "target", "returned"} =>
          \A i \in DOMAIN args.batch : IsDone(i) => next_state_values.data[i] = 0
    /\ Targeted =>
          \A i \in DOMAIN args.batch :
             IsDone(i) => expected_state_action_values.data[i]
                            = args.batch[i].reward * GAMMA.den

\* a done row with a non-zero reward whose placeholder observation the target
\* network values at something other than 0
C1_Witness ==
    /\ lpc = "returned"
    /\ \E i \in DOMAIN args.batch :
          /\ IsDone(i)
          /\ args.batch[i].reward # 0
          /\ \A a \in DOMAIN TargetRow(args.batch[i].state) :
                TargetRow(args.batch[i].state)[a] # 0

\* C2: the support vector built in CategoricalQValues.__init__ has exactly
\* N_ATOMS elements, is strictly increasing, starts at Vmin and ends exactly
\* one step short of Vmax (elements in units of 1/(N_ATOMS-1)).
C2_SupportShape ==
    npc # "new" =>
       /\ Len(supports.data) = N_ATOMS
       /\ \A i \in 1..(Len(supports.data) - 1) : supports.data[i] < supports.data[i + 1]
       /\ supports.data[1] = Vmin * (N_ATOMS - 1)
       /\ supports.data[Len(supports.data)]
             = Vmax * (N_ATOMS - 1) - (Vmax - Vmin)

\* C3: in the loss computation as the driver invokes it both networks yield
\* one scalar per (row, action), so that the predicted value is the scalar of
\* the action taken and the next value the maximum over the actions' scalars.
C3_DriverNetsYieldScalars ==
    (/\ args.net = DriverCall.net
     /\ args.tgt_net = DriverCall.tgt_net
     /\ lpc # "called") =>
       /\ Forward(args.net, unpacked.states).shape
             = <<Len(args.batch), n_actions>>
       /\ Forward(args.tgt_net, unpacked.last_states).shape
             = <<Len(args.batch), n_actions>>
       /\ lpc # "raised"

\* C4: unpack_batch returns five arrays of the length of the batch, entry k
\* from record k; dones[k] is set exactly when record k's next state is None,
\* and then next_states[k] is record k's own state, else its next state.
C4_UnpackAligned ==
    lpc # "called" =>
       /\ \A f \in DOMAIN unpacked : Len(unpacked[f]) = Len(args.batch)
       /\ \A k \in DOMAIN args.batch :
             /\ unpacked.states[k] = args.batch[k].state
             /\ unpacked.actions[k] = args.batch[k].action
             /\ unpacked.rewards[k] = args.batch[k].reward
             /\ unpacked.dones[k] \in {0, 1}
             /\ unpacked.dones[k] = 1 <=> args.batch[k].last_state = None
             /\ unpacked.last_states[k]
                   = IF args.batch[k].last_state = None
                     THEN args.batch[k].state
                     ELSE args.batch[k].last_state

\* a batch mixing a terminal and a non-terminal record of different states
C4_Witness ==
    /\ lpc = "unpacked"
    /\ \E j, k \in DOMAIN args.batch :
          /\ j < k
          /\ args.batch[j].last_state = None
          /\ args.batch[k].last_state # None
          /\ args.batch[k].last_state # args.batch[j].state
          /\ args.batch[j].state # args.batch[k].state

\* C5: the target parameters are the online parameters as they were at the
\* most recent sync (at construction before the first sync); right after a
\* sync they are the online parameters in full.
C5_TargetIsLastSync ==
    /\ TargetParams = synced
    /\ (pc = "loop" /\ Did("sync")) => TargetParams = OnlineParams

\* gradient steps applied after a sync: the target lags the online network
C5_Witness ==
    /\ TargetParams # InitialParams
    /\ TargetParams # OnlineParams
    /\ Did("step")

\* C6: for every transition whose done flag is false the target is
\* reward + GAMMA * (maximum over actions of the target network's values at
\* the next state), in units of 1/GAMMA.den.
C6_BootstrappedTarget ==
    Targeted =>
       \A i \in DOMAIN args.batch :
          ~IsDone(i) =>
             LET row == TargetRow(args.batch[i].last_state)
                 next_value == MaxOver({row[a] : a \in DOMAIN row})
             IN  expected_state_action_values.data[i]
                    = args.batch[i].reward * GAMMA.den + GAMMA.num * next_value

\* a non-terminal row with reward 0 and a non-zero next value
C6_Witness ==
    /\ lpc = "returned"
    /\ \E i \in DOMAIN args.batch :
          /\ ~IsDone(i)
          /\ args.batch[i].reward = 0
          /\ expected_state_action_values.data[i] # 0
          /\ \E a, b \in DOMAIN TargetRow(args.batch[i].last_state) :
                TargetRow(args.batch[i].last_state)[a]
                   # TargetRow(args.batch[i].last_state)[b]

\* C7: CategoricalDQN.forward returns shape [B, A, N_ATOMS] and
\* CategoricalQValues.forward on the same input returns shape [B, A].
C7_ForwardShapes ==
    /\ npc \in {"cat_out", "probs", "returned", "raised"} =>
          cat_out.shape = <<Len(x), n_actions, N_ATOMS>>
    /\ npc \in {"returned", "raised"} => res.shape = <<Len(x), n_actions>>

\* the order of the calls of one iteration of the loop
IterationOrder == <<"populate", "pop_total_rewards", "sample", "calc_loss",
                    "step", "sync">>
Position(op) == CHOOSE i \in DOMAIN IterationOrder : IterationOrder[i] = op
Trained == OnlineParams # InitialParams

\* C8: each iteration first pulls exactly one experience into the buffer;
\* sampling, loss computation and gradient step happen in that iteration, in
\* that order, only if the buffer then holds REPLAY_START_SIZE records; no
\* gradient step is applied while the buffer is smaller.
C8_TrainOnlyWhenBuffered ==
    /\ ops # <<>> => ops[1] = "populate"
    /\ \A i, j \in DOMAIN ops : i < j => Position(ops[i]) < Position(ops[j])
    /\ pc \notin {"loop", "populate", "raised"} => Did("populate")
    /\ Did("populate") => buffer_len = Min(frame_idx, REPLAY_SIZE)
    /\ \A op \in {"sample", "calc_loss", "step"} :
          Did(op) => buffer_len >= REPLAY_START_SIZE
    /\ Did("step") => Did("sample") /\ Did("calc_loss")
    /\ pc \in {"sample", "calc_loss", "backward"} => buffer_len >= REPLAY_START_SIZE
    /\ Trained => buffer_len >= REPLAY_START_SIZE

\* the first gradient step, in the iteration that fills the buffer
C8_Witness ==
    /\ Did("step")
    /\ frame_idx = REPLAY_START_SIZE
    /\ buffer_len = REPLAY_START_SIZE
    /\ OnlineParams = Stepped(InitialParams)

\* C9: the loop is left only in an iteration in which an episode ended and
\* the mean of the last (at most 100) episode rewards is strictly above
\* MEAN_REWARD_BOUND, with no gradient step and no sync in that iteration;
\* an iteration that goes on past the check is not such an iteration.
C9_ExitOnlyAboveBound ==
    LET w == LastN(total_rewards, REWARD_WINDOW)
        above == /\ new_rewards # <<>>
                 /\ 2 * SumSeq(w) > MEAN_REWARD_BOUND_HALVES * Len(w)
    IN  /\ pc = "done" =>
              /\ above
              /\ ~Did("sample") /\ ~Did("step") /\ ~Did("sync")
        /\ pc \in {"gate", "sample", "calc_loss", "backward", "sync"} => ~above
        /\ (pc = "loop" /\ Did("pop_total_rewards")) => ~above

\* the loop left in the training phase, after an episode that did not end it
C9_Witness ==
    /\ pc = "done"
    /\ Len(total_rewards) >= 2
    /\ buffer_len >= REPLAY_START_SIZE
    /\ Trained

\* C10: a sync happens exactly in the iterations with a gradient step whose
\* frame_idx is a multiple of SYNC_TARGET_FRAMES, never before the buffer
\* holds REPLAY_START_SIZE records; the target is never more than
\* SYNC_TARGET_FRAMES gradient steps behind the online network.
C10_SyncPeriod ==
    /\ Did("sync") => Did("step") /\ frame_idx % SYNC_TARGET_FRAMES = 0
    /\ (pc = "loop" /\ Did("step") /\ frame_idx % SYNC_TARGET_FRAMES = 0)
          => Did("sync")
    /\ Did("sync") => buffer_len >= REPLAY_START_SIZE
    /\ TargetParams # InitialParams => buffer_len >= REPLAY_START_SIZE
    /\ OnlineParams.fc - TargetParams.fc <= SYNC_TARGET_FRAMES
    /\ OnlineParams.conv - TargetParams.conv <= SYNC_TARGET_FRAMES

\* the second sync, SYNC_TARGET_FRAMES gradient steps after the first
C10_Witness ==
    /\ pc = "loop"
    /\ Did("sync")
    /\ frame_idx = REPLAY_START_SIZE + SYNC_TARGET_FRAMES
    /\ TargetParams.fc = SYNC_TARGET_FRAMES + 1

=============================================================================
